---- MODULE Spec2Model ----
(***************************************************************************)
(* The chatbot graph of src/src/chatbot/graph.py: the nodes bot, tools and *)
(* schedule_memories, the conditional edge should_continue, and the        *)
(* delayed memory-formation runs that schedule_memories enqueues on the    *)
(* conversation's thread.                                                  *)
(*                                                                         *)
(* The run queue itself is the deployment's; the module models of it only  *)
(* what graph.py states about it (lines 61-89): a run is created pending   *)
(* on a thread with a delay, a new request on the thread cancels the       *)
(* pending run, and a run that is still pending after its delay executes.  *)
(* Requests on one thread are served one at a time.  Time is discrete and  *)
(* a due run executes within the time unit in which it becomes due.  The   *)
(* clock is observed only through pending runs, so it stands still while   *)
(* no run is pending.                                                      *)
(***************************************************************************)
EXTENDS Integers, Sequences, FiniteSets, TLC

VARIABLES
    messages,     \* ChatState.messages of each thread
    pc,           \* the node each thread's current graph run is at
    config,       \* the ChatConfigurable of each thread's current request
    rounds,       \* tool rounds requested so far, on any thread (bounds the model's replies)
    tool_done,    \* the tool calls of the latest batch that finished, in finishing order
    sched_calls,  \* runs.create calls made by the current request
    runs,         \* every memory-formation run ever created, in creation order
    extracted,    \* the memory-formation runs that executed, in execution order
    store,        \* the memory store: the items kept under each user's namespace
    recalled,     \* the items each thread's latest bot call found in the store
    now,          \* the clock
    turns         \* requests received so far (bounds the model)

vars == <<messages, pc, config, rounds, tool_done, sched_calls, runs, extracted, store,
          recalled, now, turns>>

----------------------------------------------------------------------------
(* Bounds *)

\* Requests received plus tool rounds requested, over all threads.
MaxWork == 3
MaxTime == 6

Threads == {"c1", "c2"}

\* The configurations a caller may supply with a request.
Configs ==
    { [user_id |-> "u1", delay_seconds |-> 5, memory_types |-> {"User"}],
      [user_id |-> "u2", delay_seconds |-> 5, memory_types |-> {"User", "Note"}] }

NoConfig == [user_id |-> "", delay_seconds |-> 0, memory_types |-> {}]

UserIds == { cfg.user_id : cfg \in Configs }

----------------------------------------------------------------------------
(* Messages *)

NoCalls == <<>>

HumanMessage(text) ==
    [role |-> "user", content |-> text, tool_calls |-> NoCalls, tool_call_id |-> 0,
     status |-> ""]

AIMessage(text, calls) ==
    [role |-> "assistant", content |-> text, tool_calls |-> calls, tool_call_id |-> 0,
     status |-> ""]

ToolMessage(text, id) ==
    [role |-> "tool", content |-> text, tool_calls |-> NoCalls, tool_call_id |-> id,
     status |-> "success"]

\* The ToolMessage ToolNode returns for a call that failed.
ToolError(text, id) ==
    [role |-> "tool", content |-> text, tool_calls |-> NoCalls, tool_call_id |-> id,
     status |-> "error"]

ToolCall(id, q) ==
    [id |-> id, name |-> "example_tool", args |-> q]

\* The names of the registered tools: tools = [example_tool].
ToolNames == {"example_tool"}

\* A call of a tool the model made up.
UnknownToolCall(id, q) ==
    [id |-> id, name |-> "other_tool", args |-> q]

\* Arguments without the `query` example_tool requires.
NoQuery == "<no query>"

UserInputs == {"Call the tool with query=ping"}

\* The tool-call batches a reply may carry: call ids are unique within the message.
CallBatches ==
    { <<ToolCall(1, "ping")>>,
      <<ToolCall(1, "ping"), ToolCall(2, "pong")>>,
      <<ToolCall(1, NoQuery), ToolCall(2, "pong")>>,
      <<UnknownToolCall(1, "ping")>> }

CallIndexes == UNION { 1..Len(calls) : calls \in CallBatches }

\* What model.ainvoke may return: a final reply, or a reply requesting tool calls.
FinalReplies == { AIMessage("Done.", NoCalls) }

ToolReplies == { AIMessage("", calls) : calls \in CallBatches }

\* A reducer that keeps the update only.
add_messages_replace(left, right) == right

\* add_messages: the reducer of ChatState.messages.
add_messages(left, right) == left \o right

Last(s) == s[Len(s)]

----------------------------------------------------------------------------
(* The tools *)

\* example_tool, the only registered tool.
example_tool(query) == "You asked: " \o query

\* A ToolNode that runs example_tool whatever the call names and carries.
ToolResult_unchecked(call) == ToolMessage(example_tool(call.args), call.id)

\* ToolNode(tools) on one call, with its default error handling: a call of an
\* unregistered tool, or one whose arguments example_tool does not accept, is
\* answered with an error ToolMessage instead of raising.  The text of the
\* second error stands for the rendering of the exception.
ToolResult(call) ==
    IF call.name \notin ToolNames
    THEN ToolError("Error: " \o call.name \o " is not a valid tool, try one of [example_tool].",
                   call.id)
    ELSE IF call.args = NoQuery
    THEN ToolError("Error: invalid arguments\n Please fix your mistakes.", call.id)
    ELSE ToolMessage(example_tool(call.args), call.id)

\* A ToolNode that returns the tool messages in the order the calls finished.
ToolOutputs_as_finished(calls, done) ==
    [k \in 1..Len(done) |-> ToolResult(calls[done[k]])]

\* A ToolNode that returns messages for the calls that succeeded only.
ToolOutputs_without_failures(calls, done) ==
    SelectSeq([i \in 1..Len(calls) |-> ToolResult(calls[i])],
              LAMBDA m : m.status = "success")

\* ToolNode(tools): the calls of the last message run concurrently and finish in
\* the order `done`; one ToolMessage per call is returned, in the order of the
\* requests, each carrying the id of its call.
ToolOutputs(calls, done) ==
    [i \in 1..Len(calls) |-> ToolResult(calls[i])]

----------------------------------------------------------------------------
(* The graph's edges *)

HasToolCallsAttr(m) == m.role = "assistant"

\* A should_continue with its two answers exchanged.
should_continue_swapped(msgs) ==
    LET last_message == Last(msgs) IN
    IF ~HasToolCallsAttr(last_message) \/ last_message.tool_calls = NoCalls
    THEN "continue"
    ELSE "schedule_memories"

should_continue(msgs) ==
    LET last_message == Last(msgs) IN
    IF ~HasToolCallsAttr(last_message) \/ last_message.tool_calls = NoCalls
    THEN "schedule_memories"
    ELSE "continue"

\* A graph whose bot node always leads to schedule_memories.
EdgeFromBot_ignoring_calls(msgs) == "schedule_memories"

\* add_conditional_edges("bot", should_continue, {...})
EdgeFromBot(msgs) ==
    IF should_continue(msgs) = "continue" THEN "tools" ELSE "schedule_memories"

\* An edge from tools straight to the end of the graph run.
EdgeFromTools_to_end == "__end__"

\* An edge from tools straight to schedule_memories.
EdgeFromTools_to_schedule == "schedule_memories"

\* add_edge("tools", "bot")
EdgeFromTools == "bot"

\* add_edge("schedule_memories", "__end__")
EdgeFromSchedule == "__end__"

\* add_edge("__start__", "bot")
EdgeFromStart == "bot"

\* A thread with no graph run in flight.
Idle(t) == pc[t] \in {"idle", "__end__", "error"}

----------------------------------------------------------------------------
(* The memory-formation runs *)

Live(r) == r.status = "pending"

\* runs.create with a thread id that is not the request's own.
runs_create_one_thread(thread_id, cfg, at) ==
    [thread_id    |-> "c1",
     created_at   |-> at,
     fire_at      |-> at + cfg.delay_seconds,
     user_id      |-> cfg.user_id,
     memory_types |-> cfg.memory_types,
     status       |-> "pending",
     ended_at     |-> -1]

\* runs.create without after_seconds.
runs_create_no_delay(thread_id, cfg, at) ==
    [thread_id    |-> thread_id,
     created_at   |-> at,
     fire_at      |-> at,
     user_id      |-> cfg.user_id,
     memory_types |-> cfg.memory_types,
     status       |-> "pending",
     ended_at     |-> -1]

\* runs.create with the delay taken as a time of day instead of a delay from now.
runs_create_absolute(thread_id, cfg, at) ==
    [thread_id    |-> thread_id,
     created_at   |-> at,
     fire_at      |-> cfg.delay_seconds,
     user_id      |-> cfg.user_id,
     memory_types |-> cfg.memory_types,
     status       |-> "pending",
     ended_at     |-> -1]

\* runs.create without the user of the request's configuration.
runs_create_default_user(thread_id, cfg, at) ==
    [thread_id    |-> thread_id,
     created_at   |-> at,
     fire_at      |-> at + cfg.delay_seconds,
     user_id      |-> "default",
     memory_types |-> cfg.memory_types,
     status       |-> "pending",
     ended_at     |-> -1]

\* The run memory_client.runs.create enqueues.
runs_create(thread_id, cfg, at) ==
    [thread_id    |-> thread_id,
     created_at   |-> at,
     fire_at      |-> at + cfg.delay_seconds,
     user_id      |-> cfg.user_id,
     memory_types |-> cfg.memory_types,
     status       |-> "pending",
     ended_at     |-> -1]

\* A new request that leaves the pending run of its thread in the queue.
CancelNothing(rs, t, at) == rs

\* A new request that cancels the pending runs of every thread.
CancelPending_every_thread(rs, t, at) ==
    [i \in 1..Len(rs) |->
        IF Live(rs[i])
        THEN [rs[i] EXCEPT !.status = "cancelled", !.ended_at = at]
        ELSE rs[i]]

\* A new request that cancels again the runs of its thread already cancelled.
CancelPending_restamp(rs, t, at) ==
    [i \in 1..Len(rs) |->
        IF rs[i].thread_id = t /\ rs[i].status \in {"pending", "cancelled"}
        THEN [rs[i] EXCEPT !.status = "cancelled", !.ended_at = at]
        ELSE rs[i]]

\* A new request on thread t at time `at` cancels the run still pending on it.
CancelPending(rs, t, at) ==
    [i \in 1..Len(rs) |->
        IF rs[i].thread_id = t /\ Live(rs[i])
        THEN [rs[i] EXCEPT !.status = "cancelled", !.ended_at = at]
        ELSE rs[i]]

\* A queue that executes a run whatever its status.
Due_any_status(i) ==
    /\ runs[i].fire_at <= now
    /\ Idle(runs[i].thread_id)

\* A pending run may execute once its delay has passed and its thread is free.
Due(i) ==
    /\ Live(runs[i])
    /\ runs[i].fire_at <= now
    /\ Idle(runs[i].thread_id)

----------------------------------------------------------------------------
(* The memory store *)

\* store.asearch(namespace): the items under the namespace (user_id,).
store_asearch(st, namespace) == st[namespace[1]]

\* The executed memory-formation run i keeps a memory under its user's namespace.
memory_write(st, r, i) == [st EXCEPT ![r.user_id] = @ \cup {i}]

----------------------------------------------------------------------------
(* Initial state *)

Init ==
    /\ messages = [t \in Threads |-> <<>>]
    /\ pc = [t \in Threads |-> "idle"]
    /\ config = [t \in Threads |-> NoConfig]
    /\ rounds = 0
    /\ tool_done = [t \in Threads |-> <<>>]
    /\ sched_calls = [t \in Threads |-> 0]
    /\ runs = <<>>
    /\ extracted = <<>>
    /\ store = [u \in UserIds |-> {}]
    /\ recalled = [t \in Threads |-> {}]
    /\ now = 0
    /\ turns = 0

----------------------------------------------------------------------------
(* Actions *)

\* A request arrives on thread t: the pending memory run of the thread is
\* cancelled and the graph starts at bot with the user's message added.
NewRequest(t, cfg, text) ==
    /\ Idle(t)
    /\ turns + rounds < MaxWork
    /\ turns' = turns + 1
    /\ runs' = CancelPending(runs, t, now)
    /\ messages' = [messages EXCEPT ![t] = add_messages(@, <<HumanMessage(text)>>)]
    /\ config' = [config EXCEPT ![t] = cfg]
    /\ tool_done' = [tool_done EXCEPT ![t] = <<>>]
    /\ sched_calls' = [sched_calls EXCEPT ![t] = 0]
    /\ pc' = [pc EXCEPT ![t] = EdgeFromStart]
    /\ UNCHANGED <<rounds, extracted, store, recalled, now>>

\* bot: model.ainvoke returns m, which is added to the messages.
bot(t) ==
    /\ pc[t] = "bot"
    /\ \E m \in FinalReplies \cup (IF turns + rounds < MaxWork THEN ToolReplies ELSE {}) :
          /\ messages' = [messages EXCEPT ![t] = add_messages(@, <<m>>)]
          /\ rounds' = IF m.tool_calls = NoCalls THEN rounds ELSE rounds + 1
    /\ recalled' = [recalled EXCEPT ![t] = store_asearch(store, <<config[t].user_id>>)]
    /\ tool_done' = [tool_done EXCEPT ![t] = <<>>]
    /\ pc' = [pc EXCEPT ![t] = EdgeFromBot(messages'[t])]
    /\ UNCHANGED <<config, sched_calls, runs, extracted, store, now, turns>>

\* A bot that adds an empty reply before the error ends the graph run.
bot_raises_partial(t) ==
    /\ pc[t] = "bot"
    /\ pc' = [pc EXCEPT ![t] = "error"]
    /\ messages' = [messages EXCEPT ![t] = add_messages(@, <<AIMessage("", NoCalls)>>)]
    /\ UNCHANGED <<config, rounds, tool_done, sched_calls, runs, extracted, store, recalled, now, turns>>

\* bot: model.ainvoke (or store.asearch) raises; the graph run ends with the error.
bot_raises(t) ==
    /\ pc[t] = "bot"
    /\ pc' = [pc EXCEPT ![t] = "error"]
    /\ UNCHANGED <<messages, config, rounds, tool_done, sched_calls, runs, extracted, store, recalled, now, turns>>

\* tools: one of the requested calls finishes.
tool_call(t, i) ==
    /\ pc[t] = "tools"
    /\ i \in 1..Len(Last(messages[t]).tool_calls)
    /\ \A k \in 1..Len(tool_done[t]) : tool_done[t][k] # i
    /\ tool_done' = [tool_done EXCEPT ![t] = Append(@, i)]
    /\ UNCHANGED <<messages, pc, config, rounds, sched_calls, runs, extracted, store, recalled, now, turns>>

\* tools: every call has finished; the tool messages are added.
tools(t) ==
    /\ pc[t] = "tools"
    /\ Len(tool_done[t]) = Len(Last(messages[t]).tool_calls)
    /\ messages' = [messages EXCEPT
          ![t] = add_messages(@, ToolOutputs(Last(messages[t]).tool_calls, tool_done[t]))]
    /\ pc' = [pc EXCEPT ![t] = EdgeFromTools]
    /\ UNCHANGED <<config, rounds, tool_done, sched_calls, runs, extracted, store, recalled, now, turns>>

\* schedule_memories: enqueue the memory-formation run on the thread.
schedule_memories(t) ==
    /\ pc[t] = "schedule_memories"
    /\ runs' = Append(runs, runs_create(t, config[t], now))
    /\ sched_calls' = [sched_calls EXCEPT ![t] = @ + 1]
    /\ pc' = [pc EXCEPT ![t] = EdgeFromSchedule]
    /\ UNCHANGED <<messages, config, rounds, tool_done, extracted, store, recalled, now, turns>>

\* A run queue that extracts the memories of a due run and leaves it pending.
Fire_keeps_pending(i) ==
    /\ Due(i)
    /\ extracted' = Append(extracted,
          [run          |-> i,
           thread_id    |-> runs[i].thread_id,
           user_id      |-> runs[i].user_id,
           memory_types |-> runs[i].memory_types,
           at           |-> now])
    /\ store' = memory_write(store, runs[i], i)
    /\ UNCHANGED <<messages, pc, config, rounds, tool_done, sched_calls, runs, recalled, now, turns>>

\* The run queue executes a due run: memories are extracted with the run's configuration.
Fire(i) ==
    /\ Due(i)
    /\ runs' = [runs EXCEPT ![i].status = "fired", ![i].ended_at = now]
    /\ extracted' = Append(extracted,
          [run          |-> i,
           thread_id    |-> runs[i].thread_id,
           user_id      |-> runs[i].user_id,
           memory_types |-> runs[i].memory_types,
           at           |-> now])
    /\ store' = memory_write(store, runs[i], i)
    /\ UNCHANGED <<messages, pc, config, rounds, tool_done, sched_calls, recalled, now, turns>>

\* Time passes while a run is pending, unless a run is due.
Tick ==
    /\ now < MaxTime
    /\ \E i \in 1..Len(runs) : Live(runs[i])
    /\ \A i \in 1..Len(runs) : ~Due(i)
    /\ now' = now + 1
    /\ UNCHANGED <<messages, pc, config, rounds, tool_done, sched_calls, runs, extracted, store, recalled, turns>>

Next ==
    \/ \E t \in Threads, cfg \in Configs, text \in UserInputs : NewRequest(t, cfg, text)
    \/ \E t \in Threads : bot(t)
    \/ \E t \in Threads : bot_raises(t)
    \/ \E t \in Threads, i \in CallIndexes : tool_call(t, i)
    \/ \E t \in Threads : tools(t)
    \/ \E t \in Threads : schedule_memories(t)
    \/ \E i \in 1..Len(runs) : Fire(i)
    \/ Tick

Spec == Init /\ [][Next]_vars

\* A step of thread t's graph run: the node the run is at returns (or, for bot,
\* raises), or one of the requested tool calls finishes.
RunStep(t) ==
    \/ bot(t)
    \/ bot_raises(t)
    \/ \E i \in CallIndexes : tool_call(t, i)
    \/ tools(t)
    \/ schedule_memories(t)

\* A graph run that has started keeps being driven.
Fairness == \A t \in Threads : WF_vars(RunStep(t))

FairSpec == Spec /\ Fairness

----------------------------------------------------------------------------
(* Properties *)

RunIds == 1..Len(runs)

RunsOf(rs, t) == { i \in 1..Len(rs) : rs[i].thread_id = t }

LiveRunsOf(rs, t) == { i \in RunsOf(rs, t) : Live(rs[i]) }

Extractions(i) == { k \in 1..Len(extracted) : extracted[k].run = i }

\* The step is thread t's schedule_memories call.
ScheduleStep(t) == sched_calls'[t] = sched_calls[t] + 1

\* C1: in every reachable state each conversation (thread) id has at most one
\* live memory-extraction run, one that is neither cancelled nor executed.
C1_AtMostOneLiveJob ==
    \A t \in Threads : Cardinality(LiveRunsOf(runs, t)) <= 1

\* C1 witness: a thread whose earlier run was superseded and whose later run is live.
C1_Witness ==
    \E t \in Threads : \E i, j \in RunsOf(runs, t) :
        /\ i < j
        /\ runs[i].status = "cancelled"
        /\ Live(runs[j])

\* C2: right after a schedule_memories call returns, the thread has exactly one
\* live run, the one the call created, due at now + delay with the request's
\* parameters; and a cancelled run stays cancelled and never executes.
C2_ScheduleInstallsTheLiveJob ==
    [][ /\ \A t \in Threads : ScheduleStep(t) =>
              /\ Len(runs') = Len(runs) + 1
              /\ LiveRunsOf(runs', t) = {Len(runs')}
              /\ runs'[Len(runs')].thread_id = t
              /\ runs'[Len(runs')].fire_at = now + config[t].delay_seconds
              /\ runs'[Len(runs')].user_id = config[t].user_id
              /\ runs'[Len(runs')].memory_types = config[t].memory_types
        /\ \A i \in RunIds : runs[i].status = "cancelled" =>
              /\ runs'[i].status = "cancelled"
              /\ \A k \in 1..Len(extracted') : extracted'[k].run # i
      ]_vars

\* C2 witness: a schedule_memories call has returned on a thread whose earlier
\* run had been cancelled, at a time later than 0.
C2_Witness ==
    \E t \in Threads :
        /\ pc[t] = "__end__"
        /\ sched_calls[t] = 1
        /\ \E i, j \in RunsOf(runs, t) :
              /\ runs[i].status = "cancelled"
              /\ Live(runs[j])
              /\ runs[j].created_at > 0
              /\ runs[j].user_id # runs[i].user_id

Max(S) == CHOOSE x \in S : \A y \in S : y <= x

\* The step executes run i.
FireStep(i) == Live(runs[i]) /\ runs'[i].status = "fired"

\* C4: when a thread's run is followed by another schedule call before it has
\* executed, the earlier run never executes: only the most recently created
\* run of a thread can execute, and the extraction carries that run's parameters.
C4_SupersededJobNeverFires ==
    /\ [](\A t \in Threads : \A i, j \in RunsOf(runs, t) : i < j =>
              /\ ~Live(runs[i])
              /\ runs[i].status = "fired" => runs[i].ended_at <= runs[j].created_at
              /\ runs[i].status = "cancelled" => Extractions(i) = {})
    /\ [](\A k \in 1..Len(extracted) :
              /\ extracted[k].thread_id = runs[extracted[k].run].thread_id
              /\ extracted[k].user_id = runs[extracted[k].run].user_id
              /\ extracted[k].memory_types = runs[extracted[k].run].memory_types)
    /\ [][\A i \in RunIds : FireStep(i) => i = Max(RunsOf(runs, runs[i].thread_id))]_vars

\* C4 witness: two schedule calls on one thread with different parameters, the
\* second made before the first run executed; the second run has executed.
C4_Witness ==
    \E t \in Threads : \E i, j \in RunsOf(runs, t) :
        /\ i < j
        /\ runs[i].status = "cancelled"
        /\ runs[j].status = "fired"
        /\ runs[i].user_id # runs[j].user_id
        /\ \E k \in Extractions(j) : extracted[k].user_id = runs[j].user_id

ToolFree(m) == m.role = "assistant" /\ m.tool_calls = NoCalls

\* C8: a request that completes has made exactly one schedule call, however
\* many tool rounds it had, and made it after the final tool-free assistant
\* message was added; a request that has not completed has made none.
C8_OneScheduleCallPerTurn ==
    /\ [](\A t \in Threads :
            /\ pc[t] = "__end__" =>
                  /\ sched_calls[t] = 1
                  /\ ToolFree(Last(messages[t]))
            /\ pc[t] # "__end__" => sched_calls[t] = 0)
    /\ [][\A t \in Threads : ScheduleStep(t) =>
            /\ ToolFree(Last(messages[t]))
            /\ messages'[t] = messages[t]
            /\ pc'[t] = "__end__"]_vars

\* C8 witness: a request with a tool round has completed.
C8_Witness ==
    \E t \in Threads :
        /\ pc[t] = "__end__"
        /\ sched_calls[t] = 1
        /\ \E n \in 1..Len(messages[t]) : messages[t][n].role = "tool"

\* The step is thread t's bot node returning a reply.
BotStep(t) == pc[t] = "bot" /\ pc'[t] \notin {"bot", "error"}

\* The step is thread t's tools node returning.
ToolsStep(t) == pc[t] = "tools" /\ pc'[t] # "tools"

\* C9: a reply without tool calls adds exactly one assistant message; a reply
\* with N tool calls adds the assistant message, then exactly N tool messages,
\* each with the id of its call and, for a call example_tool accepts, its
\* output, in the order of the requests, and generation is entered again.  The ping scenario ends in
\* [user, assistant(tool call), tool("You asked: ping"), assistant("Done.")].
C9_ToolResultsInRequestOrder ==
    /\ [][\A t \in Threads :
            /\ BotStep(t) =>
                  /\ Len(messages'[t]) = Len(messages[t]) + 1
                  /\ SubSeq(messages'[t], 1, Len(messages[t])) = messages[t]
                  /\ Last(messages'[t]).role = "assistant"
                  /\ pc'[t] = IF Last(messages'[t]).tool_calls = NoCalls
                              THEN "schedule_memories" ELSE "tools"
            /\ ToolsStep(t) =>
                  LET calls == Last(messages[t]).tool_calls
                      n == Len(messages[t])
                  IN  /\ Len(messages'[t]) = n + Len(calls)
                      /\ SubSeq(messages'[t], 1, n) = messages[t]
                      /\ \A k \in 1..Len(calls) :
                            /\ messages'[t][n + k].role = "tool"
                            /\ messages'[t][n + k].tool_call_id = calls[k].id
                            /\ (calls[k].name = "example_tool" /\ calls[k].args # NoQuery) =>
                                  messages'[t][n + k].content = "You asked: " \o calls[k].args
                      /\ pc'[t] = "bot"
       ]_vars
    /\ [](\A t \in Threads :
            (/\ pc[t] = "__end__"
             /\ Len(messages[t]) = 4
             /\ messages[t][2] = AIMessage("", <<ToolCall(1, "ping")>>))
            => messages[t] = << HumanMessage("Call the tool with query=ping"),
                                AIMessage("", <<ToolCall(1, "ping")>>),
                                ToolMessage("You asked: ping", 1),
                                AIMessage("Done.", NoCalls) >>)

\* C9 witness: a batch of two calls that finished in the reverse order has just
\* been answered with the tool messages in the order of the requests.
C9_Witness ==
    \E t \in Threads :
        LET n == Len(messages[t]) - 2 IN
        /\ pc[t] = "bot"
        /\ tool_done[t] = <<2, 1>>
        /\ n >= 1
        /\ Len(messages[t][n].tool_calls) = 2
        /\ messages[t][n + 1] = ToolMessage("You asked: ping", messages[t][n].tool_calls[1].id)
        /\ messages[t][n + 2] = ToolMessage("You asked: pong", messages[t][n].tool_calls[2].id)

\* The ping scenario has run to its end on a thread.
PingScenarioDone ==
    \E t \in Threads :
        /\ pc[t] = "__end__"
        /\ messages[t] = << HumanMessage("Call the tool with query=ping"),
                            AIMessage("", <<ToolCall(1, "ping")>>),
                            ToolMessage("You asked: ping", 1),
                            AIMessage("Done.", NoCalls) >>

\* C10: when generation fails the request ends with the error: the failing
\* step adds no message and leaves the earlier ones as they were, the request
\* makes no schedule call, and nothing runs on the thread again until the
\* caller sends a new request.
C10_GenerationErrorAbortsTurn ==
    /\ [][\A t \in Threads :
            /\ (pc'[t] = "error" /\ pc[t] # "error") =>
                  /\ pc[t] = "bot"
                  /\ messages'[t] = messages[t]
                  /\ runs' = runs
            /\ pc[t] = "error" =>
                  \/ /\ pc'[t] = "error"
                     /\ messages'[t] = messages[t]
                     /\ sched_calls'[t] = sched_calls[t]
                  \/ /\ turns' = turns + 1
                     /\ pc'[t] = "bot"
                     /\ Last(messages'[t]).role = "user"
       ]_vars
    /\ [](\A t \in Threads : pc[t] = "error" =>
            /\ sched_calls[t] = 0
            /\ Last(messages[t]).role \in {"user", "tool"})

\* C10 witness: generation failed after a tool round; the thread holds the
\* user message, the tool-call message and the tool message, and no run was created
\* by the request.
C10_Witness ==
    \E t \in Threads :
        /\ pc[t] = "error"
        /\ Len(messages[t]) >= 3
        /\ Last(messages[t]).role = "tool"
        /\ RunsOf(runs, t) = {}

\* The call fails in example_tool: the tool is registered, the arguments are not accepted.
Fails(call) == call.name \in ToolNames /\ call.args = NoQuery

\* C11: a failure of one call of a batch of N calls does not end the request
\* and does not affect the other calls: the tools step still adds exactly N tool
\* messages in the order of the requests, the failing call's message carrying
\* an error, the others their outputs, and generation is entered again.
C11_ToolFailureKeepsBatch ==
    [][\A t \in Threads :
          /\ pc[t] = "tools" => pc'[t] \in {"tools", "bot"}
          /\ ToolsStep(t) =>
                LET calls == Last(messages[t]).tool_calls
                    n == Len(messages[t])
                IN  /\ Len(messages'[t]) = n + Len(calls)
                    /\ SubSeq(messages'[t], 1, n) = messages[t]
                    /\ \A k \in 1..Len(calls) :
                          /\ messages'[t][n + k].role = "tool"
                          /\ messages'[t][n + k].tool_call_id = calls[k].id
                          /\ Fails(calls[k]) =>
                                /\ messages'[t][n + k].status = "error"
                                /\ messages'[t][n + k].content =
                                      "Error: invalid arguments\n Please fix your mistakes."
                          /\ (calls[k].name \in ToolNames /\ ~Fails(calls[k])) =>
                                /\ messages'[t][n + k].status = "success"
                                /\ messages'[t][n + k].content = example_tool(calls[k].args)
                    /\ pc'[t] = "bot"
      ]_vars

\* C11 witness: a batch of two calls whose first call failed has been answered
\* with the error of the first and the output of the second, and the thread is
\* back at bot.
C11_Witness ==
    \E t \in Threads :
        LET n == Len(messages[t]) - 2 IN
        /\ pc[t] = "bot"
        /\ n >= 1
        /\ messages[t][n].tool_calls = <<ToolCall(1, NoQuery), ToolCall(2, "pong")>>
        /\ messages[t][n + 1].role = "tool"
        /\ messages[t][n + 1].status = "error"
        /\ messages[t][n + 1].tool_call_id = 1
        /\ messages[t][n + 2] = ToolMessage("You asked: pong", 2)

\* The batch holds a call of a tool that is not registered.
HasUnknownTool(calls) == \E k \in 1..Len(calls) : calls[k].name \notin ToolNames

\* The messages of thread t's current request: those from the last user message on.
TurnStart(t) == Max({ n \in 1..Len(messages[t]) : messages[t][n].role = "user" })

\* The current request of thread t has asked for a tool that is not registered.
AskedUnknownTool(t) ==
    \E n \in TurnStart(t)..Len(messages[t]) : HasUnknownTool(messages[t][n].tool_calls)

\* C12 as stated: a call of a tool that is not registered ends the request with
\* an error: the tools step adds no tool message for it, generation is not
\* entered again and the request makes no schedule call.
C12_Original ==
    /\ [][\A t \in Threads :
            (pc[t] = "tools" /\ pc'[t] # "tools"
                /\ HasUnknownTool(Last(messages[t]).tool_calls)) =>
                  /\ pc'[t] = "error"
                  /\ messages'[t] = messages[t]
       ]_vars
    /\ [](\A t \in Threads :
            (messages[t] # <<>> /\ AskedUnknownTool(t)) => sched_calls[t] = 0)

\* C12: a call of a tool that is not registered does not end the request: the
\* tools step answers it in band with an error tool message that carries the
\* call's id and names the invalid tool, the call is not dropped, generation
\* is entered again, and the request that completes has made its schedule call.
C12_UnknownToolAnsweredInBand ==
    /\ [][\A t \in Threads :
          (pc[t] = "tools" /\ pc'[t] # "tools"
              /\ HasUnknownTool(Last(messages[t]).tool_calls)) =>
                LET calls == Last(messages[t]).tool_calls
                    n == Len(messages[t])
                IN  /\ pc'[t] = "bot"
                    /\ Len(messages'[t]) = n + Len(calls)
                    /\ SubSeq(messages'[t], 1, n) = messages[t]
                    /\ \A k \in 1..Len(calls) : calls[k].name \notin ToolNames =>
                          /\ messages'[t][n + k].role = "tool"
                          /\ messages'[t][n + k].status = "error"
                          /\ messages'[t][n + k].tool_call_id = calls[k].id
                          /\ messages'[t][n + k].content =
                                "Error: " \o calls[k].name
                                    \o " is not a valid tool, try one of [example_tool]."
       ]_vars
    /\ [](\A t \in Threads :
            (pc[t] = "__end__" /\ AskedUnknownTool(t)) => sched_calls[t] = 1)

\* C12 witness: a request that asked for an unregistered tool got the error
\* tool message, went back to bot, and completed with its schedule call.
C12_Witness ==
    \E t \in Threads :
        /\ pc[t] = "__end__"
        /\ sched_calls[t] = 1
        /\ Len(messages[t]) = 4
        /\ messages[t][2] = AIMessage("", <<UnknownToolCall(1, "ping")>>)
        /\ messages[t][3].role = "tool"
        /\ messages[t][3].status = "error"
        /\ messages[t][3].tool_call_id = 1
        /\ messages[t][4] = AIMessage("Done.", NoCalls)

\* Thread t's graph run is at one of the nodes.
InFlight(t) == pc[t] \in {"bot", "tools", "schedule_memories"}

C14_ToolCallsAnsweredBeforeNextReply ==
    \A t \in Threads : \A n \in 1..Len(messages[t]) :
        LET m == messages[t][n]
            N == Len(m.tool_calls)
            len == Len(messages[t])
        IN  /\ N > 0 =>
                  IF n = len
                  THEN pc[t] = "tools"
                  ELSE /\ len >= n + N
                       /\ \A k \in 1..N :
                             /\ messages[t][n + k].role = "tool"
                             /\ messages[t][n + k].tool_call_id = m.tool_calls[k].id
                       /\ len > n + N => messages[t][n + N + 1].role # "tool"
            /\ m.role = "tool" =>
                  /\ n > 1
                  /\ \/ messages[t][n - 1].role = "tool"
                     \/ messages[t][n - 1].tool_calls # NoCalls
            /\ (m.role = "assistant" /\ n > 1 /\ messages[t][n - 1].role = "assistant") =>
                  messages[t][n - 1].tool_calls = NoCalls

\* C14 witness: a batch of two calls was answered by the two tool messages with
\* its ids, and another assistant message followed them.
C14_Witness ==
    \E t \in Threads : \E n \in 1..Len(messages[t]) :
        /\ Len(messages[t]) >= n + 3
        /\ Len(messages[t][n].tool_calls) = 2
        /\ messages[t][n + 1].tool_call_id = messages[t][n].tool_calls[1].id
        /\ messages[t][n + 2].tool_call_id = messages[t][n].tool_calls[2].id
        /\ messages[t][n + 3].role = "assistant"

\* C15: after bot the run goes to tools exactly when the message just added
\* carries tool calls and to schedule_memories otherwise (a message without
\* the tool_calls attribute, or with none); schedule_memories is never entered
\* while the last message has tool calls; and tools always returns to bot.
C15_RoutingAfterBot ==
    /\ [][\A t \in Threads :
            /\ (pc[t] = "bot" /\ messages'[t] # messages[t]) =>
                  /\ pc'[t] = "tools" <=> Last(messages'[t]).tool_calls # NoCalls
                  /\ pc'[t] = "schedule_memories" <=> Last(messages'[t]).tool_calls = NoCalls
            /\ (pc[t] = "tools" /\ pc'[t] # "tools") => pc'[t] = "bot"
            /\ (pc[t] # "schedule_memories" /\ pc'[t] = "schedule_memories") => pc[t] = "bot"
       ]_vars
    /\ [](\A t \in Threads : pc[t] = "schedule_memories" =>
              Last(messages[t]).tool_calls = NoCalls)
    /\ [](/\ should_continue(<<HumanMessage("hi")>>) = "schedule_memories"
          /\ should_continue(<<ToolMessage("You asked: ping", 1)>>) = "schedule_memories"
          /\ should_continue(<<AIMessage("Done.", NoCalls)>>) = "schedule_memories"
          /\ \A calls \in CallBatches :
                should_continue(<<AIMessage("", calls)>>) = "continue")

\* C15 witness: after a tool round, a reply without tool calls has taken the
\* run to schedule_memories.
C15_Witness ==
    \E t \in Threads :
        /\ pc[t] = "schedule_memories"
        /\ Len(messages[t]) >= 4
        /\ ToolFree(Last(messages[t]))
        /\ messages[t][Len(messages[t]) - 1].role = "tool"

\* The step is the arrival of a request on thread t.
RequestStep(t) == Idle(t) /\ pc'[t] = "bot"

C17_JobCarriesTurnConfiguration ==
    /\ [][\A t \in Threads : ScheduleStep(t) =>
            /\ Len(runs') = Len(runs) + 1
            /\ SubSeq(runs', 1, Len(runs)) = runs
            /\ Last(runs').thread_id = t
            /\ Last(runs').created_at = now
            /\ Last(runs').fire_at - Last(runs').created_at = config[t].delay_seconds
            /\ Last(runs').user_id = config[t].user_id
            /\ Last(runs').memory_types = config[t].memory_types
       ]_vars
    /\ [][\A i \in RunIds : FireStep(i) =>
            LET t == runs[i].thread_id IN
            /\ pc[t] = "__end__"
            /\ Len(extracted') = Len(extracted) + 1
            /\ Last(extracted').thread_id = t
            /\ Last(extracted').user_id = config[t].user_id
            /\ Last(extracted').memory_types = config[t].memory_types
       ]_vars
    /\ [](\A t \in Threads : LiveRunsOf(runs, t) # {} => pc[t] = "__end__")

\* C17 witness: on thread c2 a request of user u1 was followed by a request of
\* user u2 with two memory types, and the extraction received those of u2.
C17_Witness ==
    \E k \in 1..Len(extracted) : \E i \in RunsOf(runs, "c2") :
        /\ extracted[k].thread_id = "c2"
        /\ extracted[k].user_id = "u2"
        /\ extracted[k].memory_types = {"User", "Note"}
        /\ i < extracted[k].run
        /\ runs[i].user_id = "u1"
        /\ config["c2"].user_id = "u2"

\* The step is one of thread a's own: its graph run moves, or a run of a executes.
OwnStep(a) ==
    \/ pc'[a] # pc[a]
    \/ tool_done'[a] # tool_done[a]
    \/ \E i \in RunsOf(runs, a) : FireStep(i)

\* The runs of thread b, by run id.
View(rs, b) == [i \in RunsOf(rs, b) |-> rs[i]]

ExtractionsOf(ex, b) == { k \in 1..Len(ex) : ex[k].thread_id = b }

\* C18: the runs of different threads are independent: a request, a schedule
\* call or an execution on thread a leaves every run of any other thread b as
\* it was (existence, parameters, due time, status), adds no extraction for b,
\* and neither enables nor disables the execution of a run of b.
C18_ThreadsIndependent ==
    [][\A a, b \in Threads : (a # b /\ OwnStep(a)) =>
          /\ View(runs', b) = View(runs, b)
          /\ ExtractionsOf(extracted', b) = ExtractionsOf(extracted, b)
          /\ \A i \in RunsOf(runs, b) : Due(i) <=> Due(i)'
      ]_vars

\* C18 witness: the run of thread c1 was cancelled while a run of c2 was
\* pending, and the run of c2 executed later, at its own due time.
C18_Witness ==
    \E i \in RunsOf(runs, "c1") : \E j \in RunsOf(runs, "c2") :
        /\ runs[i].status = "cancelled"
        /\ runs[j].created_at <= runs[i].ended_at
        /\ runs[j].status = "fired"
        /\ runs[j].ended_at > runs[i].ended_at
        /\ runs[j].ended_at = runs[j].fire_at

Requests(t) == { n \in 1..Len(messages[t]) : messages[t][n].role = "user" }

C20_MessagesAppendOnly ==
    [][\A t \in Threads :
          /\ Len(messages'[t]) >= Len(messages[t])
          /\ SubSeq(messages'[t], 1, Len(messages[t])) = messages[t]
          /\ ScheduleStep(t) => messages' = messages
          /\ (pc'[t] # pc[t] \/ messages'[t] # messages[t] \/ tool_done'[t] # tool_done[t])
                => store' = store
          /\ (pc[t] = "bot" /\ messages'[t] # messages[t])
                => recalled'[t] = store[config[t].user_id]
      ]_vars

\* C20 witness: in a request with a tool round, bot found a memory of the user
\* in the store and added its reply after the earlier messages.
C20_Witness ==
    \E t \in Threads :
        /\ pc[t] = "__end__"
        /\ recalled[t] # {}
        /\ recalled[t] = store[config[t].user_id]
        /\ \E n \in TurnStart(t)..Len(messages[t]) : messages[t][n].role = "tool"

====
